---- MODULE Spec2Model ----
(***************************************************************************)
(* Model of the media record of obsidian-media-db-plugin: the GameModel    *)
(* variant (src/models/GameModel.ts), its base class MediaTypeModel        *)
(* (src/models/MediaTypeModel.ts) and the schema migration the constructor *)
(* runs on its input.                                                      *)
(*                                                                         *)
(* JavaScript values are tagged records.  An object is a function from its *)
(* own enumerable keys to values.  A value of tag "ref" stands for an      *)
(* array or object that is shared with the record (the same JavaScript     *)
(* object, reached through two owners), so that writing through one owner  *)
(* is seen through the other.                                              *)
(***************************************************************************)
EXTENDS Integers, Sequences, FiniteSets, TLC

\* one record: the constructor's input, the record, the value the last
\* getter returned and the writes of the caller to it
VARIABLES obj, phase, rec, gen, out, outKind, muts

rvars == <<obj, phase, rec, gen, out, outKind, muts>>

\* the settings screen: the live propertyMappingModels of the plugin
\* settings, the models the mounted component edits, the indexes of the
\* component's models that the live list holds as the same object, the number
\* of edits made, and the last object a mapping model was applied to
VARIABLES live, ui, linked, edits, exported

svars == <<live, ui, linked, edits, exported>>

\* one call of BangumiAPI.getById: the plugin settings it reads, its position,
\* the requests it has issued, the user collection data it holds, the response
\* to the subject request, and what the call returned or threw
VARIABLES settings, pc, requests, collection, subject, returned

bvars == <<settings, pc, requests, collection, subject, returned>>

\* one expansion of a file name template: the template, a sequence of
\* characters, the data of the record it is expanded against, and the result
VARIABLES template, data, expansion

tvars == <<template, data, expansion>>

\* the state outside the record
others == <<svars, bvars, tvars>>

vars == <<rvars, others>>

----------------------------------------------------------------------------
(* Bounds *)

MaxInputKeys == 2
MaxGen == 3
MaxMut == 1
MaxLen == 2
MaxEdits == 3
MaxArtists == 2
MaxResults == 2

----------------------------------------------------------------------------
(* JavaScript values *)

Undef == [t |-> "undef"]
Null == [t |-> "null"]
Str(s) == [t |-> "str", s |-> s]
Num(n) == [t |-> "num", n |-> n]
Bool(b) == [t |-> "bool", b |-> b]
Arr(q) == [t |-> "arr", q |-> q]
Obj(o) == [t |-> "obj", o |-> o]
Ref(owner, key) == [t |-> "ref", owner |-> owner, key |-> key]

EmptyObj == [k \in {} |-> Undef]

Restrict(f, S) == [k \in S |-> f[k]]

\* { ...a, ...b }: the keys of both, b's value where both have the key
Spread(a, b) == [k \in (DOMAIN a) \cup (DOMAIN b) |-> IF k \in DOMAIN b THEN b[k] ELSE a[k]]

----------------------------------------------------------------------------
(* Constants of the program *)

MediaType_Game == "game"
mediaDbTag == "mediaDB"

----------------------------------------------------------------------------
(* MediaTypeModel: fields and defaults *)

\* the state after the base constructor
MediaTypeModelInit ==
    [type |-> Str(""), subType |-> Str(""), title |-> Str(""), englishTitle |-> Str(""),
     year |-> Str(""), dataSource |-> Str(""), url |-> Str(""), id |-> Str(""),
     apiTags |-> Undef, genres |-> Undef, userData |-> Obj(EmptyObj),
     personalRating |-> Undef, personalStatus |-> Undef, personalTags |-> Undef]

\* declared types of the base class fields
MediaTypeModelTypes ==
    [type |-> "str", subType |-> "str", title |-> "str", englishTitle |-> "str",
     year |-> "str", dataSource |-> "str", url |-> "str", id |-> "str",
     apiTags |-> "arr", genres |-> "arr", userData |-> "obj",
     personalRating |-> "str", personalStatus |-> "str", personalTags |-> "arr"]

----------------------------------------------------------------------------
(* GameModel: fields and defaults *)

UserDataDefaults ==
    [played |-> Bool(FALSE), personalRating |-> Num(0),
     personalStatus |-> Undef, personalTags |-> Undef]

UserDataTypes ==
    [played |-> "bool", personalRating |-> "num",
     personalStatus |-> "str", personalTags |-> "arr"]

\* the assignments of the GameModel constructor before migration
GameModelFields ==
    [tags |-> Arr(<<>>), genres |-> Arr(<<>>), onlineRating |-> Num(0),
     platforms |-> Arr(<<>>), developers |-> Arr(<<>>), publishers |-> Arr(<<>>),
     composer |-> Arr(<<>>), image |-> Str(""), website |-> Str(""),
     description |-> Str(""), released |-> Bool(FALSE), releaseDate |-> Str(""),
     apiTags |-> Arr(<<>>), director |-> Arr(<<>>), producer |-> Arr(<<>>),
     supervisor |-> Arr(<<>>), designer |-> Arr(<<>>), programmer |-> Arr(<<>>),
     soundDirector |-> Arr(<<>>), writer |-> Arr(<<>>), cast |-> Arr(<<>>),
     artist |-> Arr(<<>>), userData |-> Obj(UserDataDefaults)]

GameModelTypes ==
    Spread(MediaTypeModelTypes,
    [tags |-> "arr", genres |-> "arr", onlineRating |-> "num",
     platforms |-> "arr", developers |-> "arr", publishers |-> "arr",
     composer |-> "arr", image |-> "str", website |-> "str",
     description |-> "str", released |-> "bool", releaseDate |-> "str",
     apiTags |-> "arr", director |-> "arr", producer |-> "arr",
     supervisor |-> "arr", designer |-> "arr", programmer |-> "arr",
     soundDirector |-> "arr", writer |-> "arr", cast |-> "arr",
     artist |-> "arr", userData |-> "obj"])

\* `this` when the constructor reaches the migration
GameModelDefaults == Spread(MediaTypeModelInit, GameModelFields)

----------------------------------------------------------------------------
(* Schema migrator *)

\* the own keys of a raw value: none unless it is an object
OwnKeys(raw) == IF raw.t = "obj" THEN DOMAIN raw.o ELSE {}

\* the declared field types of the shape a reference instance has
FieldTypes(ref) == IF DOMAIN ref = DOMAIN UserDataTypes THEN UserDataTypes ELSE GameModelTypes

\* a value is compatible with a field when it has the field's declared type
TypeCompatible(ty, v) == v.t = ty

\* reconcile oldData against the reference, field by field over the
\* reference's keys
migrateObject(object, oldData, defaultData) ==
    [k \in DOMAIN object |->
        IF k \in OwnKeys(oldData) /\ TypeCompatible(FieldTypes(defaultData)[k], oldData.o[k])
        THEN oldData.o[k]
        ELSE defaultData[k]]

----------------------------------------------------------------------------
(* GameModel *)

getMediaType == MediaType_Game

getTags == <<mediaDbTag, "game">>

\* obj.hasOwnProperty(...) throws a TypeError when obj is null or undefined,
\* and when obj has an own property of that name, which in data read from
\* JSON is never a function
HasOwnPropertyThrows(raw) ==
    \/ raw.t \in {"null", "undef"}
    \/ raw.t = "obj" /\ "hasOwnProperty" \in DOMAIN raw.o

\* the constructor without its last statement, this.type = this.getMediaType()
GameModel_KeepType(raw) ==
    LET this0 == GameModelDefaults
        this1 == migrateObject(this0, raw, this0)
        ud1 == this1.userData.o
        this2 == IF "userData" \notin OwnKeys(raw)
                 THEN [this1 EXCEPT !.userData = Obj(migrateObject(ud1, raw, ud1))]
                 ELSE this1
    IN  IF HasOwnPropertyThrows(raw)
        THEN [thrown |-> TRUE, rec |-> EmptyObj]
        ELSE [thrown |-> FALSE, rec |-> this2]

\* the constructor taking the input over with Object.assign(this, obj)
GameModel_AssignAll(raw) ==
    LET this0 == GameModelDefaults
        this1 == IF raw.t = "obj" THEN Spread(this0, raw.o) ELSE this0
        ud1 == this1.userData.o
        this2 == IF "userData" \notin OwnKeys(raw)
                 THEN [this1 EXCEPT !.userData = Obj(migrateObject(ud1, raw, ud1))]
                 ELSE this1
        this3 == [this2 EXCEPT !.type = Str(getMediaType)]
    IN  IF HasOwnPropertyThrows(raw)
        THEN [thrown |-> TRUE, rec |-> EmptyObj]
        ELSE [thrown |-> FALSE, rec |-> this3]

\* the constructor copying every input value it finds under a declared key,
\* whatever its type
GameModel_Unchecked(raw) ==
    LET this0 == GameModelDefaults
        this1 == [k \in DOMAIN this0 |-> IF k \in OwnKeys(raw) THEN raw.o[k] ELSE this0[k]]
        ud1 == UserDataDefaults
        this2 == IF "userData" \notin OwnKeys(raw)
                 THEN [this1 EXCEPT !.userData = Obj(migrateObject(ud1, raw, ud1))]
                 ELSE this1
        this3 == [this2 EXCEPT !.type = Str(getMediaType)]
    IN  IF HasOwnPropertyThrows(raw)
        THEN [thrown |-> TRUE, rec |-> EmptyObj]
        ELSE [thrown |-> FALSE, rec |-> this3]

\* the constructor without the migration of userData from a flat input
GameModel_NoFlatUserData(raw) ==
    LET this0 == GameModelDefaults
        this1 == migrateObject(this0, raw, this0)
        this3 == [this1 EXCEPT !.type = Str(getMediaType)]
    IN  IF HasOwnPropertyThrows(raw)
        THEN [thrown |-> TRUE, rec |-> EmptyObj]
        ELSE [thrown |-> FALSE, rec |-> this3]

\* the constructor assigning the userData defaults after the migration of the
\* top level instead of before it
GameModel_UserDataLate(raw) ==
    LET this0 == GameModelDefaults
        this1 == [migrateObject(this0, raw, this0) EXCEPT !.userData = Obj(UserDataDefaults)]
        ud1 == this1.userData.o
        this2 == IF "userData" \notin OwnKeys(raw)
                 THEN [this1 EXCEPT !.userData = Obj(migrateObject(ud1, raw, ud1))]
                 ELSE this1
        this3 == [this2 EXCEPT !.type = Str(getMediaType)]
    IN  IF HasOwnPropertyThrows(raw)
        THEN [thrown |-> TRUE, rec |-> EmptyObj]
        ELSE [thrown |-> FALSE, rec |-> this3]

\* new GameModel(raw): [thrown, rec]
GameModel(raw) ==
    LET this0 == GameModelDefaults
        this1 == migrateObject(this0, raw, this0)
        ud1 == this1.userData.o
        this2 == IF "userData" \notin OwnKeys(raw)
                 THEN [this1 EXCEPT !.userData = Obj(migrateObject(ud1, raw, ud1))]
                 ELSE this1
        this3 == [this2 EXCEPT !.type = Str(getMediaType)]
    IN  IF HasOwnPropertyThrows(raw)
        THEN [thrown |-> TRUE, rec |-> EmptyObj]
        ELSE [thrown |-> FALSE, rec |-> this3]

\* a summary built from title instead of englishTitle
getSummary_Title(this) == this.title.s \o " (" \o this.year.s \o ")"

getSummary(this) == this.englishTitle.s \o " (" \o this.year.s \o ")"

----------------------------------------------------------------------------
(* MediaTypeModel: export *)

RECURSIVE Join(_, _)
\* Array.prototype.join
Join(q, sep) ==
    IF Len(q) = 0 THEN ""
    ELSE IF Len(q) = 1 THEN q[1]
    ELSE q[1] \o sep \o Join(Tail(q), sep)

RECURSIVE CloneValue(_)
\* the structured clone of one value: arrays and objects are rebuilt
\* element by element, so the clone owns everything it reaches
CloneValue(v) ==
    IF v.t = "arr" THEN Arr([i \in 1..Len(v.q) |-> v.q[i]])
    ELSE IF v.t = "obj" THEN Obj([k \in DOMAIN v.o |-> CloneValue(v.o[k])])
    ELSE v

structuredClone(this) == [k \in DOMAIN this |-> CloneValue(this[k])]

\* the own enumerable properties of owner's object as a spread copies them:
\* primitives by value, arrays and objects by reference
SpreadOf(o, owner) ==
    [k \in DOMAIN o |-> IF o[k].t \in {"arr", "obj"} THEN Ref(owner, k) ELSE o[k]]

\* a copy made with a spread, { ...this }, instead of structuredClone(this)
getWithOutUserData_Shallow(this) ==
    LET copy == SpreadOf(this, "this")
    IN  Restrict(copy, (DOMAIN copy) \ {"userData"})

\* a getWithOutUserData that deletes userData from the record itself
getWithOutUserData_thisDeleted(this) == Restrict(this, (DOMAIN this) \ {"userData"})

\* the record after getWithOutUserData(): structuredClone only reads it, and
\* the delete is applied to the clone
getWithOutUserData_this(this) == this

getWithOutUserData(this) ==
    LET copy == structuredClone(this)
    IN  Restrict(copy, (DOMAIN copy) \ {"userData"})

toMetaDataObject(this) ==
    Spread(Spread(getWithOutUserData(this),
                  IF this.userData.t = "obj" THEN SpreadOf(this.userData.o, "userData") ELSE EmptyObj),
           [tags |-> Str(Join(getTags, "/"))])

\* what a value of a returned object is, read through the record it may share
Resolve(v, this) ==
    IF v.t # "ref" THEN v
    ELSE IF v.owner = "userData" THEN this.userData.o[v.key]
    ELSE this[v.key]

View(o, this) == [k \in DOMAIN o |-> Resolve(o[k], this)]

----------------------------------------------------------------------------
(* Inputs *)

InputKeys == {"type", "website", "played", "personalRating", "personalTags",
              "stale", "hasOwnProperty", "userData"}

FullUserData ==
    [played |-> Bool(TRUE), personalRating |-> Num(9),
     personalStatus |-> Str("Doing"), personalTags |-> Arr(<<"t">>)]

PartialUserData == [personalRating |-> Num(9), personalTags |-> Arr(<<"t">>)]

OddUserData == [userData |-> Obj([played |-> Bool(TRUE)]), stale |-> Str("movie")]

FieldValues == {Undef, Str("movie"), Num(5), Bool(TRUE), Arr(<<"x">>), Obj(EmptyObj)}

UserDataValues == {Num(5), Obj(EmptyObj), Obj(FullUserData), Obj(PartialUserData), Obj(OddUserData)}

TitleValues == {Str("Dune"), Str("Arrakis"), Arr(<<"x">>)}

YearValues == {Str("2021"), Num(5)}

InputValues(k) ==
    IF k = "userData" THEN UserDataValues
    ELSE IF k \in {"title", "englishTitle"} THEN TitleValues
    ELSE IF k = "year" THEN YearValues
    ELSE FieldValues

ObjectsOver(keys) ==
    UNION {{f \in [S -> FieldValues \cup UserDataValues \cup TitleValues \cup YearValues] : \A k \in S : f[k] \in InputValues(k)} :
           S \in {T \in SUBSET keys : Cardinality(T) <= MaxInputKeys}}

\* JSON-shaped inputs: null, a number, and objects of at most MaxInputKeys keys
Inputs == {Null, Num(5)} \cup {Obj(f) : f \in ObjectsOver(InputKeys)}

----------------------------------------------------------------------------
(* Construction and export of one record *)

\* no record under construction
RecordIdle ==
    /\ obj = Undef
    /\ phase = "new"
    /\ rec = EmptyObj
    /\ gen = 0
    /\ out = EmptyObj
    /\ outKind = "none"
    /\ muts = 0

\* the settings screen is not open and no settings are loaded
SettingsIdle ==
    /\ live = <<>>
    /\ ui = <<>>
    /\ linked = {}
    /\ edits = 0
    /\ exported = EmptyObj

\* no call of getById is under way
BangumiIdle ==
    /\ settings = [bangumiAccessToken |-> "", bangumiUserId |-> ""]
    /\ pc = "idle"
    /\ requests = <<>>
    /\ collection = Null
    /\ subject = Null
    /\ returned = EmptyObj

\* no template is being expanded
TemplateIdle ==
    /\ template = <<>>
    /\ data = EmptyObj
    /\ expansion = EmptyObj

\* nothing outside the record is in use
OthersIdle == SettingsIdle /\ BangumiIdle /\ TemplateIdle

Init ==
    /\ RecordIdle
    /\ OthersIdle

\* new GameModel(raw) on a raw input
Construct ==
    /\ phase = "new"
    /\ \E raw \in Inputs :
         LET r == GameModel(raw)
         IN  /\ obj' = raw
             /\ phase' = IF r.thrown THEN "failed" ELSE "built"
             /\ rec' = r.rec
    /\ gen' = 1
    /\ UNCHANGED <<out, outKind, muts>>
    /\ UNCHANGED others

\* new GameModel(record) on an instance built before
Reconstruct ==
    /\ phase = "built"
    /\ gen < MaxGen
    /\ LET r == GameModel(Obj(rec))
       IN  /\ phase' = IF r.thrown THEN "failed" ELSE "built"
           /\ rec' = r.rec
    /\ gen' = gen + 1
    /\ out' = EmptyObj
    /\ outKind' = "none"
    /\ muts' = 0
    /\ UNCHANGED obj
    /\ UNCHANGED others

CallToMetaDataObject ==
    /\ phase = "built"
    /\ out' = toMetaDataObject(rec)
    /\ rec' = getWithOutUserData_this(rec)
    /\ outKind' = "meta"
    /\ muts' = 0
    /\ UNCHANGED <<obj, phase, gen>>
    /\ UNCHANGED others

CallGetWithOutUserData ==
    /\ phase = "built"
    /\ out' = getWithOutUserData(rec)
    /\ rec' = getWithOutUserData_this(rec)
    /\ outKind' = "copy"
    /\ muts' = 0
    /\ UNCHANGED <<obj, phase, gen>>
    /\ UNCHANGED others

Next ==
    \/ Construct
    \/ Reconstruct
    \/ CallToMetaDataObject
    \/ CallGetWithOutUserData

Spec == Init /\ [][Next]_vars

----------------------------------------------------------------------------
(* Writes of a caller to an object a getter returned *)

CopyKeys == {"personalTags", "userData"}

\* inputs the constructor accepts, for the records whose copies are written to
CopyInputs == {Obj(f) : f \in ObjectsOver(CopyKeys)}

InitCopy ==
    /\ obj \in CopyInputs
    /\ phase = "built"
    /\ rec = GameModel(obj).rec
    /\ gen = 1
    /\ out = EmptyObj
    /\ outKind = "none"
    /\ muts = 0
    /\ OthersIdle

\* the arrays a caller can produce from q with one write: a push, or an
\* assignment to one element
Writes(q) ==
    (IF Len(q) < MaxLen THEN {Append(q, "mut")} ELSE {})
    \cup {[q EXCEPT ![i] = "mut"] : i \in 1..Len(q)}

\* out[k].push(...) or out[k][i] = ...: the write lands in the array out[k]
\* refers to, which is the record's own array when the two share it
MutateElement ==
    /\ outKind # "none"
    /\ muts < MaxMut
    /\ \E k \in DOMAIN out :
         /\ Resolve(out[k], rec).t = "arr"
         /\ \E q \in Writes(Resolve(out[k], rec).q) :
              IF out[k].t # "ref"
              THEN /\ out' = [out EXCEPT ![k] = Arr(q)]
                   /\ rec' = rec
              ELSE /\ out' = out
                   /\ rec' = IF out[k].owner = "userData"
                             THEN [rec EXCEPT !.userData = Obj([rec.userData.o EXCEPT ![out[k].key] = Arr(q)])]
                             ELSE [rec EXCEPT ![out[k].key] = Arr(q)]
    /\ muts' = muts + 1
    /\ UNCHANGED <<obj, phase, gen, outKind>>
    /\ UNCHANGED others

\* out[k] = ...: an assignment to a property of the returned object
MutateField ==
    /\ outKind # "none"
    /\ muts < MaxMut
    /\ \E k \in DOMAIN out :
         /\ out[k] # Str("mut")
         /\ out' = [out EXCEPT ![k] = Str("mut")]
    /\ muts' = muts + 1
    /\ UNCHANGED <<obj, phase, rec, gen, outKind>>
    /\ UNCHANGED others

NextCopy ==
    \/ CallToMetaDataObject
    \/ CallGetWithOutUserData
    \/ MutateElement
    \/ MutateField

SpecCopy == InitCopy /\ [][NextCopy]_vars

----------------------------------------------------------------------------
(* The getters of one record, called in any order *)

GetterKeys == {"title", "englishTitle", "year", "userData"}

GetterInputs == {Obj(f) : f \in ObjectsOver(GetterKeys)}

InitGetters ==
    /\ obj \in GetterInputs
    /\ phase = "built"
    /\ rec = GameModel(obj).rec
    /\ gen = 1
    /\ out = EmptyObj
    /\ outKind = "none"
    /\ muts = 0
    /\ OthersIdle

CallGetTags ==
    /\ phase = "built"
    /\ out' = [result |-> Arr(getTags)]
    /\ outKind' = "tags"
    /\ muts' = 0
    /\ UNCHANGED <<obj, phase, rec, gen>>
    /\ UNCHANGED others

CallGetSummary ==
    /\ phase = "built"
    /\ out' = [result |-> Str(getSummary(rec))]
    /\ outKind' = "summary"
    /\ muts' = 0
    /\ UNCHANGED <<obj, phase, rec, gen>>
    /\ UNCHANGED others

CallGetMediaType ==
    /\ phase = "built"
    /\ out' = [result |-> Str(getMediaType)]
    /\ outKind' = "mediaType"
    /\ muts' = 0
    /\ UNCHANGED <<obj, phase, rec, gen>>
    /\ UNCHANGED others

NextGetters ==
    \/ CallToMetaDataObject
    \/ CallGetWithOutUserData
    \/ CallGetTags
    \/ CallGetSummary
    \/ CallGetMediaType

SpecGetters == InitGetters /\ [][NextGetters]_vars

----------------------------------------------------------------------------
(* Default settings: one property mapping model per media type *)

MEDIA_TYPES == <<"movie", "series", "comicManga", "game", "wiki", "musicRelease", "boardgame", "book">>

\* a list of locked keys without dataSource
lockedPropertyMappings_Short == <<"type", "id">>

lockedPropertyMappings == <<"type", "id", "dataSource">>

\* Array.prototype.contains
Contains(q, x) == \E i \in 1..Len(q) : q[i] = x

\* a followed by the elements of b that a does not have: the order in which
\* keys are created when b's keys are assigned after a's
AppendNew(a, b) == a \o SelectSeq(b, LAMBDA x : ~Contains(a, x))

\* the order in which the base constructor creates the properties
MediaTypeModelKeyOrder ==
    <<"type", "subType", "title", "englishTitle", "year", "dataSource", "url", "id",
      "apiTags", "genres", "userData", "personalRating", "personalStatus", "personalTags">>

\* the order in which the properties of a GameModel are created: the base
\* constructor's, then the new ones of the GameModel constructor
GameModelKeyOrder ==
    AppendNew(MediaTypeModelKeyOrder,
        <<"tags", "genres", "onlineRating", "platforms", "developers", "publishers",
          "composer", "image", "website", "description", "released", "releaseDate",
          "apiTags", "director", "producer", "supervisor", "designer", "programmer",
          "soundDirector", "writer", "cast", "artist", "userData">>)

UserDataKeyOrder == <<"played", "personalRating", "personalStatus", "personalTags">>

\* the variant of a media type; the variants other than GameModel have the
\* fields of the base class
createMediaTypeModelFromMediaType(raw, mediaType) ==
    IF mediaType = MediaType_Game
    THEN GameModel(raw).rec
    ELSE [migrateObject(MediaTypeModelInit, raw, MediaTypeModelInit) EXCEPT !.type = Str(mediaType)]

ModelKeyOrder(mediaType) ==
    IF mediaType = MediaType_Game THEN GameModelKeyOrder ELSE MediaTypeModelKeyOrder

\* the order of the keys of { ...getWithOutUserData(), ...userData, tags }
MetaDataKeyOrder(mediaType) ==
    AppendNew(AppendNew(SelectSeq(ModelKeyOrder(mediaType), LAMBDA k : k # "userData"),
                        IF mediaType = MediaType_Game THEN UserDataKeyOrder ELSE <<>>),
              <<"tags">>)

\* Object.keys(o) of an object whose keys were created in the given order
ObjectKeys(o, order) == SelectSeq(order, LAMBDA k : k \in DOMAIN o)

PropertyMapping(key, newKey, mapping, locked) ==
    [key |-> key, newKey |-> newKey, mapping |-> mapping, locked |-> locked]

\* the default settings enumerating the fields of the record itself
getDefaultSettings_ModelKeys ==
    [i \in 1..Len(MEDIA_TYPES) |->
        LET mediaType == MEDIA_TYPES[i]
            model == createMediaTypeModelFromMediaType(Obj(EmptyObj), mediaType)
            keys == ObjectKeys(model, ModelKeyOrder(mediaType))
        IN  [type |-> mediaType,
             properties |-> [j \in 1..Len(keys) |->
                 PropertyMapping(keys[j], "", "default", Contains(lockedPropertyMappings, keys[j]))]]]

\* the propertyMappingModels of getDefaultSettings(plugin)
getDefaultSettings ==
    [i \in 1..Len(MEDIA_TYPES) |->
        LET mediaType == MEDIA_TYPES[i]
            model == createMediaTypeModelFromMediaType(Obj(EmptyObj), mediaType)
            metadataObj == toMetaDataObject(model)
            keys == ObjectKeys(metadataObj, MetaDataKeyOrder(mediaType))
        IN  [type |-> mediaType,
             properties |-> [j \in 1..Len(keys) |->
                 PropertyMapping(keys[j], "", "default", Contains(lockedPropertyMappings, keys[j]))]]]

----------------------------------------------------------------------------
(* The property mapping screen of the settings tab *)

MappingOptions == {"default", "remap", "remove"}

\* the media types, keys and new keys the edits are drawn from
EditTypes == {"game", "movie"}
EditKeys == {"title", "year", "dataSource"}
NewKeys == {"", "name", "title"}

\* PropertyMappingModel.copy(): a model of its own with equal entries
copy(model) == [type |-> model.type, properties |-> [j \in DOMAIN model.properties |-> model.properties[j]]]

\* PropertyMappingModel.validate(): a remap needs a new key
validate(model) ==
    \A j \in DOMAIN model.properties :
        model.properties[j].mapping = "remap" => model.properties[j].newKey # ""

\* the live list after an edit of the component's model i: the entries of the
\* list that are that object show the edit
LiveAfterEdit(i, model) ==
    IF i \in linked
    THEN [k \in DOMAIN live |-> IF live[k].type = model.type THEN model ELSE live[k]]
    ELSE live

\* the plugin loads its settings: the default settings
LoadSettings ==
    /\ live = <<>>
    /\ live' = getDefaultSettings
    /\ UNCHANGED <<ui, linked, edits, exported>>
    /\ UNCHANGED <<rvars, bvars, tvars>>

\* display(): the component is mounted on copies of the live models
Display ==
    /\ live # <<>>
    /\ ui' = [k \in DOMAIN live |-> copy(live[k])]
    /\ linked' = {}
    /\ UNCHANGED <<live, edits, exported>>
    /\ UNCHANGED <<rvars, bvars, tvars>>

\* the user picks a mapping option for an entry that is not locked
SetMapping(i, j, option) ==
    /\ edits < MaxEdits
    /\ i \in DOMAIN ui
    /\ ui[i].type \in EditTypes
    /\ j \in DOMAIN ui[i].properties
    /\ ui[i].properties[j].key \in EditKeys
    /\ ~ui[i].properties[j].locked
    /\ ui[i].properties[j].mapping # option
    /\ ui' = [ui EXCEPT ![i].properties[j].mapping = option]
    /\ live' = LiveAfterEdit(i, ui'[i])
    /\ edits' = edits + 1
    /\ UNCHANGED <<linked, exported>>
    /\ UNCHANGED <<rvars, bvars, tvars>>

\* the user types the new key of an entry that is remapped
SetNewKey(i, j, newKey) ==
    /\ edits < MaxEdits
    /\ i \in DOMAIN ui
    /\ ui[i].type \in EditTypes
    /\ j \in DOMAIN ui[i].properties
    /\ ui[i].properties[j].key \in EditKeys
    /\ ~ui[i].properties[j].locked
    /\ ui[i].properties[j].mapping = "remap"
    /\ ui[i].properties[j].newKey # newKey
    /\ ui' = [ui EXCEPT ![i].properties[j].newKey = newKey]
    /\ live' = LiveAfterEdit(i, ui'[i])
    /\ edits' = edits + 1
    /\ UNCHANGED <<linked, exported>>
    /\ UNCHANGED <<rvars, bvars, tvars>>

\* a save that puts the saved model in the place of every entry of the list
Save_All(i) ==
    /\ i \in DOMAIN ui
    /\ ui[i].type \in EditTypes
    /\ validate(ui[i])
    /\ live' = [k \in DOMAIN live |-> ui[i]]
    /\ linked' = linked \cup {i}
    /\ UNCHANGED <<ui, edits, exported>>
    /\ UNCHANGED <<rvars, bvars, tvars>>

\* the save callback: the entries of the live list of the model's type are
\* replaced by the model the component hands over
Save(i) ==
    /\ i \in DOMAIN ui
    /\ ui[i].type \in EditTypes
    /\ validate(ui[i])
    /\ live' = [k \in DOMAIN live |-> IF live[k].type = ui[i].type THEN ui[i] ELSE live[k]]
    /\ linked' = linked \cup {i}
    /\ UNCHANGED <<ui, edits, exported>>
    /\ UNCHANGED <<rvars, bvars, tvars>>

\* the object after the entries from position j on are applied in order:
\* remove deletes the key, remap renames it (with no new key the entry falls
\* back to default), default leaves it; an entry whose key the object does not
\* have does nothing
RECURSIVE ApplyFrom(_, _, _)
ApplyFrom(properties, j, o) ==
    IF j > Len(properties) THEN o
    ELSE LET p == properties[j]
             rest == Restrict(o, (DOMAIN o) \ {p.key})
         IN  IF p.key \notin DOMAIN o THEN ApplyFrom(properties, j + 1, o)
             ELSE IF p.mapping = "remove" THEN ApplyFrom(properties, j + 1, rest)
             ELSE IF p.mapping = "remap" /\ p.newKey # ""
                  THEN ApplyFrom(properties, j + 1, Spread(rest, [k \in {p.newKey} |-> o[p.key]]))
             ELSE ApplyFrom(properties, j + 1, o)

\* a mapper that keeps the old key of a remapped entry
convertObject_KeepOld(model, o) ==
    LET q == model.properties
    IN  [k \in (DOMAIN o) \cup {q[j].newKey : j \in {n \in DOMAIN q : q[n].mapping = "remap" /\ q[n].newKey # "" /\ q[n].key \in DOMAIN o}}
            |-> IF k \in DOMAIN o THEN o[k]
                ELSE o[q[CHOOSE n \in DOMAIN q : q[n].newKey = k /\ q[n].mapping = "remap" /\ q[n].key \in DOMAIN o].key]]

\* the property mapper: the model's entries applied to the object in order
convertObject(model, o) == ApplyFrom(model.properties, 1, o)

\* the raw data of the records that are exported
ExportRaw == Obj([title |-> Str("Dune"), year |-> Str("2021")])

\* the front matter of a record of a media type: the live model of the
\* record's type applied to its toMetaDataObject()
Export(k) ==
    /\ k \in DOMAIN live
    /\ live[k].type \in EditTypes
    /\ LET record == createMediaTypeModelFromMediaType(ExportRaw, live[k].type)
            source == View(toMetaDataObject(record), record)
       IN  exported' = [source |-> source, model |-> live[k], result |-> convertObject(live[k], source)]
    /\ exported' # exported
    /\ UNCHANGED <<live, ui, linked, edits>>
    /\ UNCHANGED <<rvars, bvars, tvars>>

NextSettings ==
    \/ LoadSettings
    \/ Display
    \/ \E i \in DOMAIN ui : \E j \in DOMAIN ui[i].properties : \E option \in MappingOptions : SetMapping(i, j, option)
    \/ \E i \in DOMAIN ui : \E j \in DOMAIN ui[i].properties : \E newKey \in NewKeys : SetNewKey(i, j, newKey)
    \/ \E i \in DOMAIN ui : Save(i)
    \/ \E k \in DOMAIN live : Export(k)

SpecSettings == Init /\ [][NextSettings]_vars

----------------------------------------------------------------------------
(* BangumiAPI.getById *)

MediaType ==
    [Book |-> "book", Movie |-> "movie", Series |-> "series", Game |-> MediaType_Game,
     BoardGame |-> "boardgame", MusicRelease |-> "musicRelease"]

apiName == "BangumiAPI"
apiUrl == "https://bangumi.mynanase.workers.dev/"

StatusOK == 200
StatusNotFound == 404

\* the id the call is made with, and the id of a subject that has none
SubjectId == "42"
NoId == ""

\* The platforms of the catalog are written in Latin letters. Books: manhua
\* 漫画, xiaoshuo 小说, huaji 画集, huiben 绘本, gongshishu 公式书, xiezhen 写真.
\* Anime: juchangban 剧场版, dongtaimanhua 动态漫画. Games: youxi 游戏,
\* kuozhanbao 扩展包, zhuoyou 桌游. Real: dianying 电影, riju 日剧, huayuju 华语剧,
\* oumeiju 欧美剧, dianshiju 电视剧, yanchu 演出, zongyi 综艺.

\* the media type and the subType (Null while none is set) selected for a
\* subject of catalog type 1: Book
KindOfBook(subjectData) ==
    [type |-> MediaType.Book,
     subType |-> IF subjectData.platform = "manhua" THEN Str("Manga")
                 ELSE IF subjectData.platform = "xiaoshuo" THEN Str("Novel")
                 ELSE IF subjectData.platform = "huaji" THEN Str("Artbook")
                 ELSE IF subjectData.platform = "huiben" THEN Str("PictureBook")
                 ELSE IF subjectData.platform = "gongshishu" THEN Str("GuideBook")
                 ELSE IF subjectData.platform = "xiezhen" THEN Str("PhotoBook")
                 ELSE Str("Other")]

\* catalog type 2: Anime
KindOfAnime(subjectData) ==
    IF subjectData.platform = "TV" THEN [type |-> MediaType.Series, subType |-> Str("TV")]
    ELSE IF subjectData.platform = "OVA"
         THEN IF subjectData.eps = 1
              THEN [type |-> MediaType.Movie, subType |-> Str("OVA")]
              ELSE [type |-> MediaType.Series, subType |-> Str("OVA")]
    ELSE IF subjectData.platform = "WEB" THEN [type |-> MediaType.Series, subType |-> Str("WEB")]
    ELSE IF subjectData.platform = "juchangban" THEN [type |-> MediaType.Series, subType |-> Str("")]
    ELSE IF subjectData.platform = "Movie" THEN [type |-> MediaType.Movie, subType |-> Str("Anime")]
    ELSE IF subjectData.platform = "dongtaimanhua" THEN [type |-> MediaType.Series, subType |-> Str("MotionComic")]
    ELSE [type |-> MediaType.Series, subType |-> Str("Other")]

\* catalog type 4: Game
KindOfGame(subjectData) ==
    IF subjectData.platform = "youxi" THEN [type |-> MediaType_Game, subType |-> Str("videoGame")]
    ELSE IF subjectData.platform = "kuozhanbao" THEN [type |-> MediaType_Game, subType |-> Str("DLC")]
    ELSE IF subjectData.platform = "zhuoyou" THEN [type |-> MediaType.BoardGame, subType |-> Null]
    ELSE [type |-> MediaType_Game, subType |-> Str("videoGame")]

\* catalog type 6: Real. The chain of tests on the platform ends with the
\* statement subType = 'Live'; the test of eps is a statement of its own that
\* runs after the chain, and the tests for the show and for any other
\* platform are its else branches
KindOfReal(subjectData) ==
    LET chain ==
            IF subjectData.platform = "dianying" THEN [type |-> MediaType.Movie, subType |-> Null]
            ELSE IF subjectData.platform = "riju" THEN [type |-> MediaType.Series, subType |-> Str("JPTV")]
            ELSE IF subjectData.platform = "huayuju" THEN [type |-> MediaType.Series, subType |-> Str("CNTV")]
            ELSE IF subjectData.platform = "oumeiju" THEN [type |-> MediaType.Series, subType |-> Str("ENTV")]
            ELSE IF subjectData.platform = "dianshiju" THEN [type |-> MediaType.Series, subType |-> Str("TV")]
            ELSE IF subjectData.platform = "yanchu" THEN [type |-> MediaType.Series, subType |-> Str("Live")]
            ELSE [type |-> MediaType.Series, subType |-> Null]
    IN  IF subjectData.eps = 1 THEN [chain EXCEPT !.type = MediaType.Movie]
        ELSE IF subjectData.platform = "zongyi" THEN [chain EXCEPT !.subType = Str("Show")]
        ELSE [chain EXCEPT !.subType = Str("Other")]

\* the switch on subjectData.type
SelectKind(subjectData) ==
    IF subjectData.type = 1 THEN KindOfBook(subjectData)
    ELSE IF subjectData.type = 2 THEN KindOfAnime(subjectData)
    ELSE IF subjectData.type = 3 THEN [type |-> MediaType.MusicRelease, subType |-> Null]
    ELSE IF subjectData.type = 4 THEN KindOfGame(subjectData)
    ELSE IF subjectData.type = 6 THEN KindOfReal(subjectData)
    ELSE [type |-> MediaType.Series, subType |-> Null]

\* the personal status of a user collection: its type 1..5 by name
PersonalStatus(userData) ==
    IF userData = Null THEN Undef
    ELSE IF userData.type = 1 THEN Str("Wish")
    ELSE IF userData.type = 2 THEN Str("Collect")
    ELSE IF userData.type = 3 THEN Str("Doing")
    ELSE IF userData.type = 4 THEN Str("OnHold")
    ELSE IF userData.type = 5 THEN Str("Dropped")
    ELSE Undef

\* a payload of the Game case without the three personal fields
ModelData_NoPersonal(kind, userData) ==
    LET modelData ==
            [type |-> Str(kind.type),
             subType |-> IF kind.subType = Null THEN Undef ELSE kind.subType,
             dataSource |-> Str(apiName),
             url |-> Str("https://www.bangumi.tv/subject/" \o SubjectId),
             id |-> Str(SubjectId)]
    IN  IF kind.type = MediaType.Game
        THEN Obj(Spread(modelData, [website |-> Arr(<<>>)]))
        ELSE Obj(modelData)

\* modelData, and for a game the fields the Game case adds to it that the
\* subject and the user collection of the model determine
ModelData(kind, userData) ==
    LET modelData ==
            [type |-> Str(kind.type),
             subType |-> IF kind.subType = Null THEN Undef ELSE kind.subType,
             dataSource |-> Str(apiName),
             url |-> Str("https://www.bangumi.tv/subject/" \o SubjectId),
             id |-> Str(SubjectId)]
        gameData ==
            [website |-> Arr(<<>>),
             personalRating |-> IF userData = Null THEN Undef ELSE userData.rate,
             personalTags |-> IF userData = Null THEN Undef ELSE userData.tags,
             personalStatus |-> PersonalStatus(userData)]
    IN  IF kind.type = MediaType.Game THEN Obj(Spread(modelData, gameData)) ELSE Obj(modelData)

\* the media types the switch on the selected type has a constructor for
Constructible ==
    {MediaType.Book, MediaType.Movie, MediaType.Series, MediaType_Game, MediaType.MusicRelease}

\* a catch that throws again what it caught, as it is
Rethrown_Bare(message) ==
    [thrown |-> TRUE, message |-> message, model |-> EmptyObj]

\* the catch of getById: whatever was thrown is thrown again in an Error
\* that names the id
Rethrown(message) ==
    [thrown |-> TRUE,
     message |-> "MDB | BangumiAPI | Failed to fetch data for ID " \o SubjectId \o ". Error: " \o message,
     model |-> EmptyObj]

\* getById from the response to the subject request on: [thrown, message, model]
Process(subjectResponse, userData) ==
    IF subjectResponse.status # StatusOK
    THEN Rethrown("MDB | BangumiAPI | Failed to fetch subject details for " \o SubjectId
                  \o ". Status: " \o ToString(subjectResponse.status))
    ELSE IF subjectResponse.json = Null \/ subjectResponse.json.id = NoId
    THEN Rethrown("MDB | BangumiAPI | Invalid or empty subject data received for " \o SubjectId \o ".")
    ELSE LET kind == SelectKind(subjectResponse.json)
             modelData == ModelData(kind, userData)
         IN  IF kind.type \notin Constructible
             THEN Rethrown("MDB | BangumiAPI | Unrecognized or unsupported media type '" \o kind.type
                           \o "' received for ID " \o SubjectId \o ".")
             ELSE [thrown |-> FALSE, message |-> "",
                   model |-> createMediaTypeModelFromMediaType(modelData, kind.type)]

\* what the settings, the catalog and the network are drawn from
Platforms ==
    {"manhua", "xiaoshuo", "huaji", "huiben", "gongshishu",
     "xiezhen", "TV", "OVA", "WEB", "juchangban", "Movie", "dongtaimanhua",
     "youxi", "kuozhanbao", "zhuoyou", "dianying", "riju",
     "huayuju", "oumeiju", "dianshiju", "yanchu", "zongyi", "PC"}

Subjects ==
    {[id |-> SubjectId, type |-> t, platform |-> p, eps |-> e] :
        t \in 1..6, p \in Platforms, e \in {1, 12}}
    \cup {[id |-> NoId, type |-> 2, platform |-> "TV", eps |-> 12]}

SubjectResponses ==
    {[status |-> StatusOK, json |-> j] : j \in Subjects \cup {Null}}
    \cup {[status |-> StatusNotFound, json |-> Null]}

UserCollections == {[rate |-> Num(8), tags |-> Arr(<<"t">>), type |-> t] : t \in {1, 2, 3, 4, 5, 9}}

CollectionRequest ==
    [endpoint |-> "collection",
     url |-> apiUrl \o "v0/users/" \o settings.bangumiUserId \o "/collections/" \o SubjectId,
     authorization |-> "Bearer " \o settings.bangumiAccessToken]

\* a subject request that carries the access token like the user collection request
SubjectRequest_WithToken ==
    [endpoint |-> "subject", url |-> apiUrl \o "v0/subjects/" \o SubjectId,
     authorization |-> "Bearer " \o settings.bangumiAccessToken]

SubjectRequest ==
    [endpoint |-> "subject", url |-> apiUrl \o "v0/subjects/" \o SubjectId, authorization |-> ""]

\* the plugin is set up with or without the access token and the user id
Configure ==
    /\ pc = "idle"
    /\ \E accessToken \in {"", "tok"} : \E userId \in {"", "u1"} :
         settings' = [bangumiAccessToken |-> accessToken, bangumiUserId |-> userId]
    /\ settings' # settings
    /\ UNCHANGED <<pc, requests, collection, subject, returned>>
    /\ UNCHANGED <<rvars, svars, tvars>>

\* a getById that asks for the user collection whenever there is an access token
BeginGetById_TokenOnly ==
    /\ pc = "idle"
    /\ IF settings.bangumiAccessToken # ""
       THEN pc' = "awaitCollection" /\ requests' = Append(requests, CollectionRequest)
       ELSE pc' = "awaitSubject" /\ requests' = Append(requests, SubjectRequest)
    /\ UNCHANGED <<settings, collection, subject, returned>>
    /\ UNCHANGED <<rvars, svars, tvars>>

\* getById(id) up to its first await: the user collection is requested when
\* there are an access token and a user id, the subject otherwise
BeginGetById ==
    /\ pc = "idle"
    /\ IF settings.bangumiAccessToken # "" /\ settings.bangumiUserId # ""
       THEN pc' = "awaitCollection" /\ requests' = Append(requests, CollectionRequest)
       ELSE pc' = "awaitSubject" /\ requests' = Append(requests, SubjectRequest)
    /\ UNCHANGED <<settings, collection, subject, returned>>
    /\ UNCHANGED <<rvars, svars, tvars>>

\* the user collection request answers with status 200 and data, with
\* another status, or throws; in each case the subject is requested next
CollectionResponds ==
    /\ pc = "awaitCollection"
    /\ \/ \E userData \in UserCollections : collection' = userData
       \/ collection' = Null
    /\ requests' = Append(requests, SubjectRequest)
    /\ pc' = "awaitSubject"
    /\ UNCHANGED <<settings, subject, returned>>
    /\ UNCHANGED <<rvars, svars, tvars>>

\* the subject request answers and getById runs to its end
SubjectResponds ==
    /\ pc = "awaitSubject"
    /\ \E subjectResponse \in SubjectResponses :
         /\ subject' = subjectResponse
         /\ returned' = Process(subjectResponse, collection)
    /\ pc' = "done"
    /\ UNCHANGED <<settings, requests, collection>>
    /\ UNCHANGED <<rvars, svars, tvars>>

\* the subject request throws
SubjectThrows ==
    /\ pc = "awaitSubject"
    /\ returned' = Rethrown("Request failed")
    /\ pc' = "done"
    /\ UNCHANGED <<settings, requests, collection, subject>>
    /\ UNCHANGED <<rvars, svars, tvars>>

NextBangumi ==
    \/ Configure
    \/ BeginGetById
    \/ CollectionResponds
    \/ SubjectResponds
    \/ SubjectThrows

SpecBangumi == Init /\ [][NextBangumi]_vars

----------------------------------------------------------------------------
(* File name templates and their expansion *)

\* '{{ title }} ({{ year }})'
movieFileNameTemplate ==
    <<"{", "{", " ", "t", "i", "t", "l", "e", " ", "}", "}", " ", "(", "{", "{", " ", "y",
      "e", "a", "r", " ", "}", "}", ")">>

\* '{{ title }}'
wikiFileNameTemplate ==
    <<"{", "{", " ", "t", "i", "t", "l", "e", " ", "}", "}">>

\* '{{ title }} (by {{ ENUM:artists }} - {{ year }})'
musicReleaseFileNameTemplate ==
    <<"{", "{", " ", "t", "i", "t", "l", "e", " ", "}", "}", " ", "(", "b", "y", " ", "{",
      "{", " ", "E", "N", "U", "M", ":", "a", "r", "t", "i", "s", "t", "s", " ", "}", "}",
      " ", "-", " ", "{", "{", " ", "y", "e", "a", "r", " ", "}", "}", ")">>

\* the string of a sequence of characters
RECURSIVE Text(_)
Text(cs) == IF cs = <<>> THEN "" ELSE Head(cs) \o Text(Tail(cs))

\* the first position from j on that holds a space or a brace, or the
\* position after the end
RECURSIVE NameEnd(_, _)
NameEnd(cs, j) ==
    IF j > Len(cs) \/ cs[j] \in {" ", "{", "}"} THEN j ELSE NameEnd(cs, j + 1)

\* the token that starts at position i: two opening braces, one space, a
\* name, one space, two closing braces
TokenAt(cs, i) ==
    LET e == NameEnd(cs, i + 3)
    IN  IF /\ i + 2 <= Len(cs)
           /\ cs[i] = "{" /\ cs[i + 1] = "{" /\ cs[i + 2] = " "
           /\ e > i + 3
           /\ e + 2 <= Len(cs)
           /\ cs[e] = " " /\ cs[e + 1] = "}" /\ cs[e + 2] = "}"
        THEN [found |-> TRUE, name |-> SubSeq(cs, i + 3, e - 1), next |-> e + 3]
        ELSE [found |-> FALSE, name |-> <<>>, next |-> i + 1]

EnumPrefix == <<"E", "N", "U", "M", ":">>

IsEnum(name) == Len(name) > Len(EnumPrefix) /\ SubSeq(name, 1, Len(EnumPrefix)) = EnumPrefix

\* the field a token names
FieldOf(name) == IF IsEnum(name) THEN Text(SubSeq(name, Len(EnumPrefix) + 1, Len(name))) ELSE Text(name)

\* the string form of a field joined with a comma and no space
StringForm_Comma(v) ==
    IF v.t = "str" THEN v.s
    ELSE IF v.t = "num" THEN ToString(v.n)
    ELSE IF v.t = "bool" THEN (IF v.b THEN "true" ELSE "false")
    ELSE IF v.t = "arr" THEN Join(v.q, ",")
    ELSE ""

\* the string form of a field's value: a sequence is joined with ', '
StringForm(v) ==
    IF v.t = "str" THEN v.s
    ELSE IF v.t = "num" THEN ToString(v.n)
    ELSE IF v.t = "bool" THEN (IF v.b THEN "true" ELSE "false")
    ELSE IF v.t = "arr" THEN Join(v.q, ", ")
    ELSE ""

\* an ENUM token that stands for the whole sequence at once
Elements_Joined(o, field) ==
    IF field \notin DOMAIN o THEN <<"">>
    ELSE <<StringForm(o[field])>>

\* the elements an ENUM token of a field runs over: the elements of a
\* sequence, the one string form of any other value, the empty string of a
\* field the record does not have
Elements(o, field) ==
    IF field \notin DOMAIN o THEN <<"">>
    ELSE IF o[field].t = "arr" THEN o[field].q
    ELSE <<StringForm(o[field])>>

\* what a token is replaced by, choice giving the element each ENUM field is at
Substitute(name, o, choice) ==
    IF IsEnum(name) THEN Elements(o, FieldOf(name))[choice[FieldOf(name)]]
    ELSE IF FieldOf(name) \in DOMAIN o THEN StringForm(o[FieldOf(name)])
    ELSE ""

\* the template from position i on with its tokens replaced; braces that
\* form no token stay as they are
RECURSIVE Render(_, _, _, _)
Render(cs, i, o, choice) ==
    IF i > Len(cs) THEN ""
    ELSE LET token == TokenAt(cs, i)
         IN  IF token.found
             THEN Substitute(token.name, o, choice) \o Render(cs, token.next, o, choice)
             ELSE cs[i] \o Render(cs, i + 1, o, choice)

\* the fields of the ENUM tokens from position i on, each once, in order
RECURSIVE EnumFields(_, _)
EnumFields(cs, i) ==
    IF i > Len(cs) THEN <<>>
    ELSE LET token == TokenAt(cs, i)
             rest == EnumFields(cs, token.next)
         IN  IF token.found /\ IsEnum(token.name)
             THEN <<FieldOf(token.name)>> \o SelectSeq(rest, LAMBDA f : f # FieldOf(token.name))
             ELSE rest

\* the repetitions of the template, one per element of each ENUM field,
\* concatenated in the order of the elements
RECURSIVE Repeat(_, _, _, _, _)
Repeat(cs, o, fields, choice, k) ==
    IF fields = <<>> THEN Render(cs, 1, o, choice)
    ELSE IF k > Len(Elements(o, Head(fields))) THEN ""
    ELSE Repeat(cs, o, Tail(fields), (Head(fields) :> k) @@ choice, 1)
         \o Repeat(cs, o, fields, choice, k + 1)

\* the expansion of a template against the data of a record
ExpandTemplate(cs, o) == Repeat(cs, o, EnumFields(cs, 1), EmptyObj, 1)

\* the default templates, two templates with braces that form no token,
\* '{{title}} ({{ year }})' and '{{ title } {{  year }}', and
\* '{{ ENUM:artists }};'
Templates ==
    {movieFileNameTemplate, wikiFileNameTemplate, musicReleaseFileNameTemplate,
        <<"{", "{", "t", "i", "t", "l", "e", "}", "}", " ", "(", "{", "{", " ", "y", "e", "a",
          "r", " ", "}", "}", ")">>,
        <<"{", "{", " ", "t", "i", "t", "l", "e", " ", "}", " ", "{", "{", " ", " ", "y", "e",
          "a", "r", " ", "}", "}">>,
        <<"{", "{", " ", "E", "N", "U", "M", ":", "a", "r", "t", "i", "s", "t", "s", " ", "}",
          "}", ";">>}

\* the lists of at most MaxArtists artists
ArtistLists == UNION {[1..n -> {"A", "B"}] : n \in 0..MaxArtists}

\* the data of the records: each field absent or with one of a few values
TemplateFieldValues(k) ==
    IF k = "title" THEN {Str("Dune"), Str("X"), Arr(<<"A", "B">>)}
    ELSE IF k = "year" THEN {Str("2021"), Str("2020"), Num(5)}
    ELSE {Arr(q) : q \in ArtistLists} \cup {Str("A")}

TemplateData ==
    LET fields == {"title", "year", "artists"}
    IN  UNION {{f \in [S -> UNION {TemplateFieldValues(k) : k \in fields}] :
                    \A k \in S : f[k] \in TemplateFieldValues(k)} : S \in SUBSET fields}

\* a file name is asked for: a template and the data of a record
BeginExpansion ==
    /\ template = <<>>
    /\ template' \in Templates
    /\ data' \in TemplateData
    /\ UNCHANGED expansion
    /\ UNCHANGED <<rvars, svars, bvars>>

\* the template is expanded
Expand ==
    /\ template # <<>>
    /\ expansion = EmptyObj
    /\ expansion' = [thrown |-> FALSE, text |-> ExpandTemplate(template, data)]
    /\ UNCHANGED <<template, data>>
    /\ UNCHANGED <<rvars, svars, bvars>>

NextTemplate ==
    \/ BeginExpansion
    \/ Expand

SpecTemplate == Init /\ [][NextTemplate]_vars

----------------------------------------------------------------------------
(* BangumiAPI.searchByTitle *)

\* the entries of data.list: null, or a result with an id (0 for none), a
\* catalog type (0 for none), a name and an air_date that is a string, given
\* as its characters, or a number
SearchResults ==
    {[id |-> 7, type |-> t, name |-> "Dune", air_date |-> Arr(<<"2", "0", "2", "0", "-", "0", "1">>)] :
        t \in 0..6}
    \cup {[id |-> 0, type |-> 2, name |-> "Dune", air_date |-> Arr(<<>>)],
          [id |-> 8, type |-> 4, name |-> "Arrakis", air_date |-> Arr(<<>>)],
          [id |-> 9, type |-> 2, name |-> "Dune", air_date |-> Num(2020)],
          Null}

\* the responses to the search request: a status and the json, which is
\* null, an object without a list, an object whose list is no array, or an
\* object with a list of at most MaxResults entries
SearchResponses ==
    {[status |-> c, json |-> Null] : c \in {StatusNotFound, 500}}
    \cup {[status |-> StatusOK, json |-> j] : j \in {Null, EmptyObj, [list |-> Str("none")]}}
    \cup {[status |-> StatusOK, json |-> [list |-> Arr(q)]] :
             q \in UNION {[1..n -> SearchResults] : n \in 0..MaxResults}}

SearchRequest ==
    [endpoint |-> "search", url |-> apiUrl \o "search/subject/" \o "dune" \o "?responseGroup=large",
     authorization |-> ""]

\* the first switch of the loop: the media type of a catalog type, "" for a
\* type that is skipped
SearchKind(type) ==
    IF type = 1 THEN MediaType.Book
    ELSE IF type = 2 THEN MediaType.Series
    ELSE IF type = 3 THEN MediaType.MusicRelease
    ELSE IF type = 4 THEN MediaType.Game
    ELSE IF type = 6 THEN MediaType.Series
    ELSE ""

\* the loop over data.list from entry i on, results being the models pushed
\* so far: [thrown, models]. Reading a property of null throws, and so does
\* air_date.split of an air_date that is no string; an entry without id or
\* type, or of an unknown type, is skipped
RECURSIVE SearchLoop(_, _, _)
SearchLoop(list, i, results) ==
    IF i > Len(list) THEN [thrown |-> FALSE, models |-> results]
    ELSE LET result == list[i]
         IN  IF result = Null THEN [thrown |-> TRUE, models |-> <<>>]
             ELSE IF result.id = 0 \/ result.type = 0 THEN SearchLoop(list, i + 1, results)
             ELSE IF result.air_date.t # "arr" THEN [thrown |-> TRUE, models |-> <<>>]
             ELSE IF SearchKind(result.type) = "" THEN SearchLoop(list, i + 1, results)
             ELSE LET date == result.air_date.q
                      dashes == {k \in 1..Len(date) : date[k] = "-"}
                      year == SubSeq(date, 1, IF dashes = {} THEN Len(date)
                                              ELSE (CHOOSE k \in dashes : \A m \in dashes : k <= m) - 1)
                      modelData ==
                          Obj([type |-> Str(SearchKind(result.type)),
                               subType |-> Undef,
                               title |-> Str(result.name),
                               englishTitle |-> Str(result.name),
                               year |-> Str(Text(year)),
                               dataSource |-> Str(apiName),
                               id |-> Str(ToString(result.id)),
                               image |-> Str("")])
                      model == createMediaTypeModelFromMediaType(modelData, SearchKind(result.type))
                  IN  SearchLoop(list, i + 1, Append(results, model))

\* searchByTitle from the response to the search request on: the models it
\* resolves to; whatever is thrown inside is caught and gives the empty list
searchByTitle(searchResponse) ==
    IF searchResponse.status = StatusNotFound THEN <<>>
    ELSE IF searchResponse.status # StatusOK THEN <<>>
    ELSE IF searchResponse.json = Null THEN <<>>
    ELSE IF "list" \notin DOMAIN searchResponse.json THEN <<>>
    ELSE IF searchResponse.json.list.t # "arr" THEN <<>>
    ELSE LET loop == SearchLoop(searchResponse.json.list.q, 1, <<>>)
         IN  IF loop.thrown THEN <<>> ELSE loop.models

\* searchByTitle(title) up to its await: the search is requested
BeginSearch ==
    /\ pc = "idle"
    /\ requests' = Append(requests, SearchRequest)
    /\ pc' = "awaitSearch"
    /\ UNCHANGED <<settings, collection, subject, returned>>
    /\ UNCHANGED <<rvars, svars, tvars>>

\* the search request answers and searchByTitle runs to its end
SearchResponds ==
    /\ pc = "awaitSearch"
    /\ \E searchResponse \in SearchResponses :
         /\ subject' = searchResponse
         /\ returned' = [thrown |-> FALSE, message |-> "", models |-> searchByTitle(searchResponse)]
    /\ pc' = "searched"
    /\ UNCHANGED <<settings, requests, collection>>
    /\ UNCHANGED <<rvars, svars, tvars>>

\* the search request throws: the catch returns the empty list
SearchThrows ==
    /\ pc = "awaitSearch"
    /\ returned' = [thrown |-> FALSE, message |-> "", models |-> <<>>]
    /\ pc' = "searched"
    /\ UNCHANGED <<settings, requests, collection, subject>>
    /\ UNCHANGED <<rvars, svars, tvars>>

\* the calls of the adapter: one getById or one searchByTitle
NextAdapter ==
    \/ NextBangumi
    \/ BeginSearch
    \/ SearchResponds
    \/ SearchThrows

SpecAdapter == Init /\ [][NextAdapter]_vars

----------------------------------------------------------------------------
(* Properties *)

Built == phase = "built"

\* the default-constructed reference instance, new GameModel({})
RefDefault == GameModel(Obj(EmptyObj)).rec

HasKey(k) == k \in OwnKeys(obj)

\* C1: after construction from any input, the record's type is
\* getMediaType(), MediaType.Game; the input's type does not survive
C1_TypeIsMediaType ==
    Built => rec.type = Str(getMediaType) /\ getMediaType = MediaType_Game

\* a record built from an input that names another media kind
C1_Witness ==
    Built /\ HasKey("type") /\ obj.o.type = Str("movie") /\ rec.type = Str("game")

\* C2: the constructed record has exactly the keys of the default-constructed
\* instance: none missing, none taken over from the input
C2_ReferenceKeySet ==
    Built => DOMAIN rec = DOMAIN RefDefault

\* a record built from an input with a key no GameModel has
C2_Witness ==
    Built /\ HasKey("stale") /\ "stale" \notin DOMAIN rec

\* C3: toMetaDataObject() of a constructed record has every field of the
\* default instance's export and no value undefined
C3_NoUndefinedExported ==
    (Built /\ outKind = "meta") =>
        /\ DOMAIN toMetaDataObject(RefDefault) \subseteq DOMAIN out
        /\ \A k \in DOMAIN out : Resolve(out[k], rec) # Undef

C5_NothingMigrated ==
    (Built /\ ~HasKey("userData")) => rec.userData = Obj(UserDataDefaults)

\* C5 amended: without a userData key in the input the userData fields are
\* reconciled against the input's own top-level keys: a field the input has
\* no key for holds its default, a field the input has a type-compatible
\* value for holds that value
C5_FlatUserDataMigrated ==
    (Built /\ ~HasKey("userData")) =>
        /\ rec.userData.t = "obj"
        /\ DOMAIN rec.userData.o = DOMAIN UserDataDefaults
        /\ \A k \in DOMAIN UserDataDefaults :
            /\ ~HasKey(k) => rec.userData.o[k] = UserDataDefaults[k]
            /\ (HasKey(k) /\ obj.o[k].t = UserDataTypes[k]) => rec.userData.o[k] = obj.o[k]

\* a record built from a flat input with played: true
C5_Witness ==
    /\ Built /\ ~HasKey("userData") /\ HasKey("played")
    /\ obj.o.played = Bool(TRUE) /\ rec.userData.o.played = Bool(TRUE)

\* C6: with a userData key in the input the record's userData has exactly the
\* keys of the reference userData
C6_UserDataReconciled ==
    (Built /\ HasKey("userData")) =>
        /\ rec.userData.t = "obj"
        /\ DOMAIN rec.userData.o = DOMAIN UserDataDefaults

\* C7: constructing a GameModel never throws, for any JSON-shaped input
C7_NeverThrows ==
    phase # "failed"

\* C8: constructing a GameModel from a constructed GameModel yields an equal
\* record, the first time and every time after
C8_Idempotent ==
    [][(gen >= 1 /\ gen' > gen) => (phase' = "built" /\ rec' = rec)]_vars

\* a record constructed a third time, from an instance with user data of its own
C8_Witness ==
    Built /\ gen >= 3 /\ rec.userData # Obj(UserDataDefaults) /\ rec.website = Str("movie")

\* C9: toMetaDataObject() is the top level without userData, overlaid with
\* the fields of userData, overlaid with tags = getTags().join('/'); it has no
\* userData key and no nested object value
C9_MetaDataObject ==
    (Built /\ outKind = "meta") =>
        /\ View(out, rec) =
             Spread(Spread(Restrict(rec, (DOMAIN rec) \ {"userData"}), rec.userData.o),
                    [tags |-> Str("mediaDB/game")])
        /\ "userData" \notin DOMAIN out
        /\ \A k \in DOMAIN out : Resolve(out[k], rec).t # "obj"

\* what getWithOutUserData() returns: no userData key, every other field of
\* the record with an equal value
C10_CopyShape ==
    (outKind = "copy" /\ muts = 0) =>
        /\ "userData" \notin DOMAIN out
        /\ DOMAIN out = (DOMAIN rec) \ {"userData"}
        /\ \A k \in DOMAIN out : Resolve(out[k], rec) = rec[k]

\* C10: getWithOutUserData() returns the record without userData, and no
\* write to a field or to an element of a sequence of the returned object
\* changes the record
C10_DeepCopy ==
    /\ []C10_CopyShape
    /\ [][(outKind = "copy" /\ muts' > muts) => rec' = rec]_vars

\* a copy one of whose sequences was written to, next to its unchanged record
C10_Witness ==
    /\ outKind = "copy" /\ muts >= 1
    /\ rec.personalTags = Arr(<<"x">>)
    /\ out.personalTags = Arr(<<"x", "mut">>)

\* C11: a call of toMetaDataObject(), getWithOutUserData(), getTags(),
\* getSummary() or getMediaType(), after any calls before it, leaves every
\* field of the record as it was, userData included
C11_GettersKeepRecord ==
    [][(phase = "built" /\ gen' = gen /\ muts' = 0) => (rec' = rec /\ "userData" \in DOMAIN rec')]_vars

\* a record with user data of its own after getWithOutUserData()
C11_Witness ==
    /\ Built /\ outKind = "copy" /\ "userData" \notin DOMAIN out
    /\ rec.userData = Obj(FullUserData)

\* C12: no write to a sequence of the object toMetaDataObject() returned
\* changes the record or its userData
C12_MetaDataObjectSharesNothing ==
    [][(outKind = "meta" /\ muts' > muts) => rec' = rec]_vars

\* C20 as stated: getSummary() is the title followed by the year in parentheses
C20_SummaryOfTitle ==
    (Built /\ outKind = "summary") =>
        out.result = Str(rec.title.s \o " (" \o rec.year.s \o ")")

\* C20 amended: getSummary() is the englishTitle followed by the year in
\* parentheses
C20_SummaryOfEnglishTitle ==
    (Built /\ outKind = "summary") =>
        out.result = Str(rec.englishTitle.s \o " (" \o rec.year.s \o ")")

\* the summary of a record whose title and englishTitle differ
C20_Witness ==
    /\ Built /\ outKind = "summary"
    /\ rec.title = Str("Dune") /\ rec.englishTitle = Str("Arrakis")
    /\ out.result = Str("Arrakis (" \o rec.year.s \o ")")

\* the settings as loaded, before the settings screen is opened
Loaded == live # <<>> /\ ui = <<>>

IdentityKeys == {"type", "id", "dataSource"}

\* C13: getDefaultSettings yields one PropertyMappingModel per media type of
\* MEDIA_TYPES, in that order; each model has exactly one entry per key of
\* toMetaDataObject() of the type's default record (the userData fields and
\* tags included, userData itself not, no key twice), in enumeration order,
\* each with mapping Default, newKey '' and locked iff the key is type, id or
\* dataSource
C13_DefaultMappingModels ==
    Loaded =>
        /\ Len(live) = Len(MEDIA_TYPES)
        /\ \A i \in 1..Len(live) :
              LET q == live[i].properties
                  metadataObj == toMetaDataObject(createMediaTypeModelFromMediaType(Obj(EmptyObj), MEDIA_TYPES[i]))
              IN  /\ live[i].type = MEDIA_TYPES[i]
                  /\ {q[j].key : j \in 1..Len(q)} = DOMAIN metadataObj
                  /\ Len(q) = Cardinality(DOMAIN metadataObj)
                  /\ "tags" \in DOMAIN metadataObj /\ "userData" \notin DOMAIN metadataObj
                  /\ \A j \in 1..Len(q) :
                        /\ q[j].mapping = "default"
                        /\ q[j].newKey = ""
                        /\ q[j].locked <=> q[j].key \in IdentityKeys
        /\ \E i \in 1..Len(live) :
              /\ live[i].type = "game"
              /\ [j \in 1..Len(live[i].properties) |-> live[i].properties[j].key] =
                    <<"type", "subType", "title", "englishTitle", "year", "dataSource", "url", "id",
                      "apiTags", "genres", "personalRating", "personalStatus", "personalTags",
                      "tags", "onlineRating", "platforms", "developers", "publishers", "composer",
                      "image", "website", "description", "released", "releaseDate", "director",
                      "producer", "supervisor", "designer", "programmer", "soundDirector", "writer",
                      "cast", "artist", "played">>

\* the default settings are loaded and the game model has the key of a
\* userData field
C13_Witness ==
    /\ Loaded
    /\ \E i \in 1..Len(live) :
          /\ live[i].type = "game"
          /\ \E j \in 1..Len(live[i].properties) : live[i].properties[j].key = "played"

C15_LiveChangesOnlyAtSave == [][edits' > edits => live' = live]_vars

\* the key under which an entry that does not remove it leaves the value of its key
OutKey(p) == IF p.mapping = "remap" /\ p.newKey # "" THEN p.newKey ELSE p.key

Renames(p, o) == p.mapping = "remap" /\ p.newKey # "" /\ p.newKey # p.key /\ p.key \in DOMAIN o

\* the new key of entry j is a key another entry's value survives under
Collides(q, j, o) ==
    \E n \in DOMAIN q : n # j /\ q[n].key \in DOMAIN o /\ q[n].mapping # "remove" /\ OutKey(q[n]) = q[j].newKey

RemapTarget(q, j, k, o) == \E n \in DOMAIN q : n # j /\ Renames(q[n], o) /\ q[n].newKey = k

Answered ==
    /\ pc = "done"
    /\ subject # Null
    /\ subject.status = StatusOK
    /\ subject.json # Null
    /\ subject.json.id # NoId

\* C17: when the subject's catalog type is not a known one, or the media type
\* selected has no variant constructor, getById throws; it returns no record
\* of a guessed or default kind
C17_UnknownKindFails ==
    (Answered /\ (subject.json.type \notin {1, 2, 3, 4, 6}
                   \/ SelectKind(subject.json).type \notin Constructible))
        => returned.thrown

\* the string the record's data has for a field: '' when it has none
FieldText(k) == IF k \in DOMAIN data THEN StringForm(data[k]) ELSE ""

\* C18: every token {{ field }} is replaced by the string form of the field
\* (a sequence joined with ', '), a token of a field the record does not
\* have by the empty string, and nothing is thrown; '{{ title }} ({{ year }})'
\* with title Dune and year 2021 yields 'Dune (2021)'
C18_TokensReplaced ==
    expansion # EmptyObj =>
        /\ ~expansion.thrown
        /\ template = wikiFileNameTemplate => expansion.text = FieldText("title")
        /\ template = movieFileNameTemplate =>
              /\ expansion.text = FieldText("title") \o " (" \o FieldText("year") \o ")"
              /\ (data = [title |-> Str("Dune"), year |-> Str("2021")]) => expansion.text = "Dune (2021)"
              /\ (data = [title |-> Arr(<<"A", "B">>), year |-> Str("2021")]) => expansion.text = "A, B (2021)"
              /\ (data = [year |-> Str("2021")]) => expansion.text = " (2021)"

\* the default template expanded for Dune, 2021
C18_Witness ==
    /\ expansion # EmptyObj
    /\ template = movieFileNameTemplate
    /\ data = [title |-> Str("Dune"), year |-> Str("2021")]
    /\ expansion.text = "Dune (2021)"

\* the music template once per artist, the ENUM token replaced by the artist
RECURSIVE PerArtist(_)
PerArtist(artists) ==
    IF artists = <<>> THEN ""
    ELSE FieldText("title") \o " (by " \o Head(artists) \o " - " \o FieldText("year") \o ")"
         \o PerArtist(Tail(artists))

\* C19: a template with {{ ENUM:field }}, expanded against a record whose
\* field is a sequence of n elements, yields n repetitions of the template
\* concatenated in the order of the sequence, each with one element in place
\* of the token; the music template with artists [A, B] yields one
\* repetition with A and one with B
C19_EnumRepeats ==
    (/\ expansion # EmptyObj
     /\ template = musicReleaseFileNameTemplate
     /\ "artists" \in DOMAIN data
     /\ data.artists.t = "arr") =>
        /\ expansion.text = PerArtist(data.artists.q)
        /\ (data = [title |-> Str("X"), artists |-> Arr(<<"A", "B">>), year |-> Str("2020")]) =>
              expansion.text = "X (by A - 2020)X (by B - 2020)"

\* the music template expanded for two artists
C19_Witness ==
    /\ expansion # EmptyObj
    /\ template = musicReleaseFileNameTemplate
    /\ data = [title |-> Str("X"), artists |-> Arr(<<"A", "B">>), year |-> Str("2020")]
    /\ expansion.text = "X (by A - 2020)X (by B - 2020)"

\* C21: in getById the user collection is requested iff an access token and
\* a user id are both set, and then before the subject; the subject is
\* requested exactly once on every call, whatever the user collection request
\* came to
C21_RequestOrder ==
    LET at(endpoint) == {i \in DOMAIN requests : requests[i].endpoint = endpoint}
    IN  /\ pc \in {"awaitCollection", "awaitSubject", "done"} =>
              /\ at("collection") # {} <=>
                    (settings.bangumiAccessToken # "" /\ settings.bangumiUserId # "")
              /\ Cardinality(at("collection")) <= 1
              /\ \A i \in at("collection") : \A j \in at("subject") : i < j
              /\ Cardinality(at("subject")) <= 1
        /\ pc \in {"awaitSubject", "done"} => Cardinality(at("subject")) = 1
        /\ pc = "awaitCollection" => at("subject") = {}

\* a call that ended after the user collection request gave no data
C21_Witness ==
    /\ pc = "done"
    /\ collection = Null
    /\ Len(requests) = 2
    /\ requests[1].endpoint = "collection"
    /\ requests[2].endpoint = "subject"

\* C22: the access token is sent only in the Authorization header of the
\* user collection request; the search request and the subject request are
\* the same whatever the token is
C22_TokenOnlyInCollectionRequest ==
    \A i \in DOMAIN requests :
        /\ requests[i].endpoint = "collection" =>
              requests[i].authorization = "Bearer " \o settings.bangumiAccessToken
        /\ requests[i].endpoint = "subject" =>
              requests[i] = [endpoint |-> "subject",
                             url |-> "https://bangumi.mynanase.workers.dev/v0/subjects/42",
                             authorization |-> ""]
        /\ requests[i].endpoint = "search" =>
              requests[i] = [endpoint |-> "search",
                             url |-> "https://bangumi.mynanase.workers.dev/search/subject/dune?responseGroup=large",
                             authorization |-> ""]

\* a call with an access token set that sent both of its requests
C22_Witness ==
    /\ settings.bangumiAccessToken = "tok"
    /\ Len(requests) = 2
    /\ requests[1].authorization = "Bearer tok"
    /\ requests[2].endpoint = "subject"

\* C23: searchByTitle never rejects; when the request throws, answers 404 or
\* another status that is not 200, or answers data whose list is missing or
\* no array, it resolves to the empty list; and an entry of the list whose
\* model cannot be built does not take away the models of the other entries
C23_SearchNeverRejects ==
    pc = "searched" =>
        /\ ~returned.thrown
        /\ LET noList == \/ subject = Null
                         \/ subject.status # StatusOK
                         \/ subject.json = Null
                         \/ "list" \notin DOMAIN subject.json
                         \/ subject.json.list.t # "arr"
           IN  IF noList THEN returned.models = <<>>
               ELSE LET list == subject.json.list.q
                        built == {i \in DOMAIN list :
                                    /\ list[i] # Null
                                    /\ list[i].id # 0
                                    /\ list[i].type \in {1, 2, 3, 4, 6}
                                    /\ list[i].air_date.t = "arr"}
                    IN  \A i \in built :
                            \E j \in DOMAIN returned.models :
                                returned.models[j].id = Str(ToString(list[i].id))

\* C24: searchByTitle returns, in the order of the list, one record for each
\* entry with a truthy id and a type among 1, 2, 3, 4 and 6, and nothing
\* else: a Book record for type 1, a Series record for 2 and 6, a
\* MusicRelease record for 3, a Game record for 4; so never more records
\* than entries
C24_OneRecordPerResult ==
    (/\ pc = "searched"
     /\ subject # Null
     /\ subject.status = StatusOK
     /\ subject.json # Null
     /\ "list" \in DOMAIN subject.json
     /\ subject.json.list.t = "arr") =>
        LET list == subject.json.list.q
            kept == SelectSeq(list, LAMBDA r : r # Null /\ r.id # 0 /\ r.type \in {1, 2, 3, 4, 6})
            kind(type) == IF type = 1 THEN MediaType.Book
                          ELSE IF type = 3 THEN MediaType.MusicRelease
                          ELSE IF type = 4 THEN MediaType.Game
                          ELSE MediaType.Series
        IN  /\ Len(returned.models) = Len(kept)
            /\ Len(returned.models) <= Len(list)
            /\ \A j \in DOMAIN kept :
                   /\ returned.models[j].type = Str(kind(kept[j].type))
                   /\ returned.models[j].id = Str(ToString(kept[j].id))

\* C25: getById returns a record only if the subject request answered 200
\* with data that carries an id; in every other case it rejects with an Error
\* whose message starts with 'MDB | BangumiAPI | Failed to fetch data for ID
\* <id>', and no record is returned
C25_RecordOnlyFromValidSubject ==
    pc = "done" =>
        LET start == "MDB | BangumiAPI | Failed to fetch data for ID 42"
            rests == {". Error: Request failed",
                      ". Error: MDB | BangumiAPI | Failed to fetch subject details for 42. Status: 404",
                      ". Error: MDB | BangumiAPI | Invalid or empty subject data received for 42."}
        IN  /\ ~returned.thrown => Answered
            /\ returned.thrown => returned.model = EmptyObj
            /\ ~Answered =>
                   /\ returned.thrown
                   /\ \E rest \in rests : returned.message = start \o rest

\* the subject request answered 200 without data and the call rejected
C25_Witness ==
    /\ pc = "done"
    /\ subject # Null
    /\ subject.status = StatusOK
    /\ subject.json = Null
    /\ returned.thrown

\* C26: for every media type the selection of getById can come to (Book,
\* Movie, Series, Game, BoardGame, MusicRelease) getById returns a record of
\* that type; a subject of catalog type 4 with the board game platform comes
\* back as a BoardGame record
C26_EveryKindHasRecord ==
    (Answered /\ subject.json.type \in {1, 2, 3, 4, 6}) =>
        /\ ~returned.thrown
        /\ returned.model.type = Str(SelectKind(subject.json).type)
        /\ (subject.json.type = 4 /\ subject.json.platform = "zhuoyou") =>
               returned.model.type = Str(MediaType.BoardGame)

\* C27: for a subject of catalog type 6 the subType of the record comes from
\* the platform alone (JPTV, CNTV, ENTV, TV, Live and Show for the platforms
\* named, Other for any other), and the record is a Movie exactly when the
\* platform is the film platform, or the stage platform with eps = 1, and a
\* Series otherwise, whatever eps is
C27_RealKindFromPlatform ==
    (Answered /\ subject.json.type = 6) =>
        LET platform == subject.json.platform
            named == [riju |-> "JPTV", huayuju |-> "CNTV", oumeiju |-> "ENTV",
                      dianshiju |-> "TV", yanchu |-> "Live", zongyi |-> "Show"]
            movie == platform = "dianying" \/ (platform = "yanchu" /\ subject.json.eps = 1)
        IN  /\ ~returned.thrown
            /\ returned.model.type = Str(IF movie THEN MediaType.Movie ELSE MediaType.Series)
            /\ platform \in DOMAIN named => returned.model.subType = Str(named[platform])
            /\ platform \notin DOMAIN named \cup {"dianying"} => returned.model.subType = Str("Other")

C29_SaveReplacesOwnType ==
    [][(linked \subseteq linked' /\ linked' # linked) =>
          LET i == CHOOSE x \in linked' \ linked : TRUE
              model == ui[i]
          IN  /\ Len(live') = Len(live)
              /\ \A k \in DOMAIN live :
                     live'[k] = IF live[k].type = model.type THEN model ELSE live[k]
              /\ \E k \in DOMAIN live' : live'[k] = model]_vars

\* an edited model was saved: its entry of the live list is the saved model
\* and no longer the default one, an entry of another type is the default one
C29_Witness ==
    \E i \in linked :
        /\ \E k \in DOMAIN live : live[k] = ui[i] /\ live[k] # getDefaultSettings[k]
        /\ \E m \in DOMAIN live : live[m].type # ui[i].type /\ live[m] = getDefaultSettings[m]

====
